---- MODULE Spec2Model ----
(***************************************************************************)
(* A model of the tab abstraction layer of qutebrowser:                    *)
(*   - GlobalMessageBridge (utils/message.py): show / flush                *)
(*     and, under SpecDelivery, flush step by step with handlers of        *)
(*     show_message that call show / flush                                 *)
(*   - AbstractHistory (browser/browsertab.py): back / forward             *)
(*   - AbstractZoom (browser/browsertab.py): set_factor / apply_offset /   *)
(*     _on_config_changed, over a usertypes.NeighborList                   *)
(*   - questions (utils/message.py): _build_question, ask, ask_async,      *)
(*     confirm_async, over a usertypes.Question and its handler            *)
(*   - SearchMatch (browser/browsertab.py): reset / is_null / at_limit     *)
(*   - AbstractWebInspector (browser/inspector.py): set_position and the   *)
(*     position and window geometry kept in the state store                *)
(*   - AbstractTab (browser/browsertab.py): the load status                *)
(* The components share no state: each has its own variables and its own   *)
(* specification (SpecBridge, SpecHistory, SpecZoom, SpecQuestion,         *)
(* SpecSearch, SpecInspector, SpecTab, and SpecDelivery for the bridge     *)
(* with handlers that call back), under which the variables of the         *)
(* other components stay as constructed.                                   *)
(***************************************************************************)
EXTENDS Integers, Sequences, FiniteSets, TLC

VARIABLES
    bridge,       \* GlobalMessageBridge: _connected, _cache, and the show_message emissions
    submitted,    \* every MessageInfo built by a show() call made by a caller, in call order
    bridge_call,  \* the last call on the bridge: its name and the emissions it made
    history,      \* the backend's history: __len__() and current_idx()
    history_call, \* the last back()/forward() call: its count, its _go_to_item calls, its exception
    config,       \* config.val.zoom: levels and default
    zoom,         \* AbstractZoom: _zoom_factor, _default_zoom_changed, _neighborlist
    zoom_call,    \* the last call on the zoom object, and the one before it
    question,        \* the usertypes.Question in flight, as _build_question made it and its handler left it
    caller,          \* where the caller of the blocking ask() is: idle or blocked in the handler
    question_call,   \* the last step of the question flow: its arguments, exception, emissions and result
    match,           \* AbstractSearch.match: the SearchMatch of the tab's search
    match_call,      \* the last call on the SearchMatch: its argument, its result, the fields before it
    inspector,       \* tabdata.inspector: the tab's AbstractWebInspector, if one exists
    state,           \* configfiles.state['inspector']: the entries position and window
    inspector_call,  \* the last call on the inspector, with the last position asked for and the last geometry saved
    tab,             \* AbstractTab: url(), _progress and _load_status
    insecure_hosts,  \* AbstractTab._insecure_hosts, shared between all tabs
    tab_call,        \* the last load event of the tab: its argument and its load_status_changed emissions
    frames           \* the flush() calls under way, innermost last: the list each one iterates and its position in it

vars == <<bridge, submitted, bridge_call, history, history_call, config, zoom, zoom_call,
         question, caller, question_call,
         match, match_call,
         inspector, state, inspector_call,
         tab, insecure_hosts, tab_call,
         frames>>

bridge_vars == <<bridge, submitted, bridge_call>>
history_vars == <<history, history_call>>
zoom_vars == <<config, zoom, zoom_call>>
question_vars == <<question, caller, question_call>>
search_vars == <<match, match_call>>
inspector_vars == <<inspector, state, inspector_call>>
tab_vars == <<tab, insecure_hosts, tab_call>>
delivery_vars == <<frames>>

----------------------------------------------------------------------------
(* Bounds of the model *)

\* show() calls in one run
MaxShows == 3
\* flush() calls in one run
MaxFlushes == 2
\* entries of the backend's history
MaxLen == 4
\* largest count given to back()/forward() (the smallest is -MaxCount)
MaxCount == 5

----------------------------------------------------------------------------
(* GlobalMessageBridge *)

MessageLevel == {"error", "warning", "info"}
Texts == {"a", "b"}
Replaces == {"", "id"}

\* MessageInfo(level=level, text=text, replace=replace, rich=rich)
MessageInfo(level, text, replace, rich) ==
    [level |-> level, text |-> text, replace |-> replace, rich |-> rich]

Messages ==
    {MessageInfo(l, t, r, h) : l \in MessageLevel, t \in Texts, r \in Replaces, h \in BOOLEAN}

\* GlobalMessageBridge.__init__
GlobalMessageBridge_init ==
    [connected |-> FALSE, cache |-> <<>>, show_message |-> <<>>]

\* a mutant of show: emits whether or not a handler is connected
show_always_emits(b, level, text, replace, rich) ==
    [b EXCEPT !.show_message = Append(@, MessageInfo(level, text, replace, rich))]

\* GlobalMessageBridge.show
show(b, level, text, replace, rich) ==
    LET msg == MessageInfo(level, text, replace, rich)
    IN  IF b.connected
        THEN [b EXCEPT !.show_message = Append(@, msg)]
        ELSE [b EXCEPT !.cache = Append(@, msg)]

\* a mutant of the loop body of flush: show(msg.level, msg.text), with the
\* defaults of replace and rich
show_level_text(b, msg) == show(b, msg.level, msg.text, "", FALSE)

\* dataclasses.asdict(msg), given back to show as keyword arguments
show_asdict(b, msg) == show(b, msg.level, msg.text, msg.replace, msg.rich)

\* for msg in self._cache: self.show(**dataclasses.asdict(msg))
RECURSIVE flush_loop(_, _)
flush_loop(b, msgs) ==
    IF msgs = <<>> THEN b ELSE flush_loop(show_asdict(b, Head(msgs)), Tail(msgs))

\* a mutant of flush: the cache is not cleared after the loop
flush_keeps_cache(b) ==
    LET attached == [b EXCEPT !.connected = TRUE]
    IN  flush_loop(attached, attached.cache)

\* GlobalMessageBridge.flush
flush(b) ==
    LET attached == [b EXCEPT !.connected = TRUE]
        shown == flush_loop(attached, attached.cache)
    IN  [shown EXCEPT !.cache = <<>>]

\* the show_message emissions that took b to b2
Emissions(b, b2) ==
    SubSeq(b2.show_message, Len(b.show_message) + 1, Len(b2.show_message))

\* A caller shows a message: global_bridge.show(level, text, replace, rich)
Show ==
    /\ Len(submitted) < MaxShows
    /\ \E l \in MessageLevel, t \in Texts, r \in Replaces, h \in BOOLEAN :
         LET b2 == show(bridge, l, t, r, h)
         IN  /\ bridge' = b2
             /\ submitted' = Append(submitted, MessageInfo(l, t, r, h))
             /\ bridge_call' = [bridge_call EXCEPT !.op = "show",
                                                   !.emits = Emissions(bridge, b2)]
    /\ UNCHANGED <<history_vars, zoom_vars, question_vars, search_vars, inspector_vars, tab_vars, delivery_vars>>

\* The display attaches: global_bridge.flush()
Flush ==
    /\ bridge_call.flushes < MaxFlushes
    /\ LET b2 == flush(bridge)
       IN  /\ bridge' = b2
           /\ bridge_call' = [op |-> "flush", emits |-> Emissions(bridge, b2),
                              flushes |-> bridge_call.flushes + 1]
    /\ UNCHANGED <<submitted, history_vars, zoom_vars, question_vars, search_vars, inspector_vars, tab_vars, delivery_vars>>

NextBridge == Show \/ Flush

----------------------------------------------------------------------------
(* AbstractHistory *)

Counts == (0 - MaxCount) .. MaxCount

\* the outcome of a call: the backend's current index afterwards, the indexes
\* handed to _go_to_item(_item_at(idx)) in order, and the exception raised.
\* The backend's _go_to_item makes the item it is given the current one.
Outcome(idx, navs, raised) == [idx |-> idx, navs |-> navs, raised |-> raised]

\* a mutant of _check_count: lets -1 through
check_count_off_by_one(count) == count < -1

\* AbstractHistory._check_count: TRUE when it raises WebTabError
check_count_raises(count) == count < 0

\* a mutant of back: the boundary test is idx > 0
back_strict(h, count) ==
    IF check_count_raises(count)
    THEN Outcome(h.idx, <<>>, "count")
    ELSE LET idx == h.idx - count
         IN  IF idx > 0
             THEN Outcome(idx, <<idx>>, "none")
             ELSE Outcome(0, <<0>>, "boundary")

\* AbstractHistory.back
back(h, count) ==
    IF check_count_raises(count)
    THEN Outcome(h.idx, <<>>, "count")
    ELSE LET idx == h.idx - count
         IN  IF idx >= 0
             THEN Outcome(idx, <<idx>>, "none")
             ELSE Outcome(0, <<0>>, "boundary")

\* a mutant of forward: the boundary test is idx <= len(self)
forward_inclusive(h, count) ==
    IF check_count_raises(count)
    THEN Outcome(h.idx, <<>>, "count")
    ELSE LET idx == h.idx + count
         IN  IF idx <= h.len
             THEN Outcome(idx, <<idx>>, "none")
             ELSE Outcome(h.len - 1, <<h.len - 1>>, "boundary")

\* a mutant of forward: past the end it goes to the index asked for
forward_unclamped(h, count) ==
    IF check_count_raises(count)
    THEN Outcome(h.idx, <<>>, "count")
    ELSE LET idx == h.idx + count
         IN  IF idx < h.len
             THEN Outcome(idx, <<idx>>, "none")
             ELSE Outcome(idx, <<idx>>, "boundary")

\* AbstractHistory.forward
forward(h, count) ==
    IF check_count_raises(count)
    THEN Outcome(h.idx, <<>>, "count")
    ELSE LET idx == h.idx + count
         IN  IF idx < h.len
             THEN Outcome(idx, <<idx>>, "none")
             ELSE Outcome(h.len - 1, <<h.len - 1>>, "boundary")

Back ==
    /\ \E count \in Counts :
         LET out == back(history, count)
         IN  /\ history' = [history EXCEPT !.idx = out.idx]
             /\ history_call' = [op |-> "back", count |-> count, from |-> history.idx,
                                 navs |-> out.navs, raised |-> out.raised]
    /\ UNCHANGED <<bridge_vars, zoom_vars, question_vars, search_vars, inspector_vars, tab_vars, delivery_vars>>

Forward ==
    /\ \E count \in Counts :
         LET out == forward(history, count)
         IN  /\ history' = [history EXCEPT !.idx = out.idx]
             /\ history_call' = [op |-> "forward", count |-> count, from |-> history.idx,
                                 navs |-> out.navs, raised |-> out.raised]
    /\ UNCHANGED <<bridge_vars, zoom_vars, question_vars, search_vars, inspector_vars, tab_vars, delivery_vars>>

NextHistory == Back \/ Forward

----------------------------------------------------------------------------
(* AbstractZoom *)

\* Zoom levels are whole percentages. A zoom factor is a float: the model
\* holds it as a whole number of 1/Grain percent, so that a factor can lie
\* between two whole percentages (factor = value / (100 * Grain)). Products
\* and quotients by 100 are exact here; that a binary float product can fall
\* just below a whole percentage is not modelled.

\* largest percentage a zoom level or the default can be set to
MaxPerc == 3
\* steps per percent in which factors are held
Grain == 3
\* largest offset given to apply_offset (the smallest is -MaxOffset)
MaxOffset == 2

Percs == 1 .. MaxPerc
Offsets == (0 - MaxOffset) .. MaxOffset
\* the factors given to set_factor: two negative ones (below -1 percent, and
\* between -1 percent and 0), zero, and those on, between and above the levels
Factors == {0 - Grain - 1, -1} \cup (0 .. (MaxPerc * Grain + 1))

\* the values zoom.levels can be set to: ordered lists of distinct percentages
RECURSIVE SetToSeq(_)
SetToSeq(S) ==
    IF S = {} THEN <<>>
    ELSE LET m == CHOOSE x \in S : \A y \in S : x <= y
         IN  <<m>> \o SetToSeq(S \ {m})

LevelLists == {SetToSeq(S) : S \in (SUBSET Percs) \ {{}}}

None == <<>>
Some(v) == <<v>>
Get(o) == o[1]

Abs(x) == IF x < 0 THEN 0 - x ELSE x

\* float(perc) / 100, as a factor
perc_to_factor(perc) == perc * Grain

\* int(factor * 100): the percentage of a factor, truncated towards zero
factor_to_int_perc(factor) ==
    IF factor >= 0 THEN factor \div Grain ELSE 0 - ((0 - factor) \div Grain)

\* usertypes.NeighborList(levels, mode=edge): no current item, no fuzzyval
NeighborList(items) == [items |-> items, idx |-> None, fuzzyval |-> None]

\* NeighborList: the positions of the items nearest to the fuzzyval
nearest_idx(nl) ==
    {i \in DOMAIN nl.items :
        \A j \in DOMAIN nl.items :
            Abs(nl.items[i] - Get(nl.fuzzyval)) <= Abs(nl.items[j] - Get(nl.fuzzyval))}

\* NeighborList.getitem: the positions the pointer can be at before stepping:
\* synced to an item nearest to the fuzzyval when one is set, else where it is
snap_candidates(nl) ==
    IF nl.fuzzyval # None THEN nearest_idx(nl) ELSE {Get(nl.idx)}

\* NeighborList.getitem(offset) in edge mode, with the pointer synced to snap:
\* the fuzzyval is used up, the pointer moves by offset and stops at the ends
getitem(nl, offset, snap) ==
    LET target == snap + offset
        idx == IF target < 1 THEN 1
               ELSE IF target > Len(nl.items) THEN Len(nl.items)
               ELSE target
    IN  [nl |-> [nl EXCEPT !.idx = Some(idx), !.fuzzyval = None],
         level |-> nl.items[idx]]

\* the outcome of a call on the zoom object: the object afterwards, the factors
\* handed to _set_factor_internal in order, and whether it raised
ZoomOutcome(z, internal, raised) == [z |-> z, internal |-> internal, raised |-> raised]

\* AbstractZoom._init_neighborlist
init_neighborlist(cfg, z) ==
    [z EXCEPT !.neighborlist =
        [NeighborList(cfg.levels) EXCEPT !.fuzzyval = Some(cfg.default)]]

\* AbstractZoom.__init__
AbstractZoom_init(cfg) ==
    LET z == [default_zoom_changed |-> FALSE,
              neighborlist |-> NeighborList(cfg.levels),
              zoom_factor |-> 0]
    IN  [init_neighborlist(cfg, z) EXCEPT !.zoom_factor = perc_to_factor(cfg.default)]

\* a mutant of set_factor: a negative factor is not rejected
set_factor_unchecked(cfg, z, factor, fuzzyval) ==
    LET z1 == IF fuzzyval
              THEN [z EXCEPT !.neighborlist.fuzzyval = Some(factor_to_int_perc(factor))]
              ELSE z
    IN  ZoomOutcome(
            [z1 EXCEPT !.default_zoom_changed = (factor # perc_to_factor(cfg.default)),
                       !.zoom_factor = factor],
            <<factor>>, FALSE)

\* a mutant of set_factor: the fuzzyval of the neighbor list is never set
set_factor_unsynced(cfg, z, factor, fuzzyval) ==
    IF factor < 0
    THEN ZoomOutcome(z, <<>>, TRUE)
    ELSE ZoomOutcome(
             [z EXCEPT !.default_zoom_changed = (factor # perc_to_factor(cfg.default)),
                       !.zoom_factor = factor],
             <<factor>>, FALSE)

\* AbstractZoom.set_factor
set_factor(cfg, z, factor, fuzzyval) ==
    LET z1 == IF fuzzyval
              THEN [z EXCEPT !.neighborlist.fuzzyval = Some(factor_to_int_perc(factor))]
              ELSE z
    IN  IF factor < 0
        THEN ZoomOutcome(z1, <<>>, TRUE)
        ELSE ZoomOutcome(
                 [z1 EXCEPT !.default_zoom_changed = (factor # perc_to_factor(cfg.default)),
                            !.zoom_factor = factor],
                 <<factor>>, FALSE)

\* a mutant of apply_offset: the list is asked for the item one step further
apply_offset_one_further(cfg, z, offset, snap) ==
    LET got == getitem(z.neighborlist, offset + 1, snap)
        out == set_factor(cfg, [z EXCEPT !.neighborlist = got.nl],
                          perc_to_factor(got.level), FALSE)
    IN  [z |-> out.z, internal |-> out.internal, raised |-> out.raised,
         level |-> got.level]

\* AbstractZoom.apply_offset, with the level the call returns
apply_offset(cfg, z, offset, snap) ==
    LET got == getitem(z.neighborlist, offset, snap)
        out == set_factor(cfg, [z EXCEPT !.neighborlist = got.nl],
                          perc_to_factor(got.level), FALSE)
    IN  [z |-> out.z, internal |-> out.internal, raised |-> out.raised,
         level |-> got.level]

\* a mutant of _on_config_changed: the default is applied whatever the flag
on_config_changed_always(cfg, z, option) ==
    IF option \in {"zoom.levels", "zoom.default"}
    THEN LET out == set_factor(cfg, z, perc_to_factor(cfg.default), TRUE)
         IN  ZoomOutcome(init_neighborlist(cfg, out.z), out.internal, out.raised)
    ELSE ZoomOutcome(z, <<>>, FALSE)

\* AbstractZoom._on_config_changed
on_config_changed(cfg, z, option) ==
    IF option \in {"zoom.levels", "zoom.default"}
    THEN LET out == IF ~z.default_zoom_changed
                    THEN set_factor(cfg, z, perc_to_factor(cfg.default), TRUE)
                    ELSE ZoomOutcome(z, <<>>, FALSE)
         IN  ZoomOutcome(init_neighborlist(cfg, out.z), out.internal, out.raised)
    ELSE ZoomOutcome(z, <<>>, FALSE)

\* AbstractZoom.factor
factor(z) == z.zoom_factor

\* the record of a call: its name and argument, the level it returned, whether
\* it raised, its _set_factor_internal calls, and the kind of the call made
\* before it
ZoomCall(op, arg, out, level, prev) ==
    [op |-> op, arg |-> arg, level |-> level, raised |-> out.raised,
     internal |-> out.internal, prev |-> prev]

\* the kind of a call, for the call after it: an apply_offset(0), an accepted
\* set_factor(f) whose percentage is no whole number, or another call
Prev(call) ==
    IF call.op = "apply_offset" /\ call.arg = 0 THEN "apply_offset(0)"
    ELSE IF call.op = "set_factor" /\ call.arg >= 0
            /\ perc_to_factor(factor_to_int_perc(call.arg)) # call.arg
         THEN "set_factor(fraction)"
    ELSE "other"

InitCall == [op |-> "init", arg |-> 0, level |-> 0, raised |-> FALSE,
             internal |-> <<>>, prev |-> "other"]

\* tab.zoom.set_factor(f)
SetFactor ==
    /\ \E f \in Factors :
         LET out == set_factor(config, zoom, f, TRUE)
         IN  /\ zoom' = out.z
             /\ zoom_call' = ZoomCall("set_factor", f, out, 0, Prev(zoom_call))
    /\ UNCHANGED <<config, bridge_vars, history_vars, question_vars, search_vars, inspector_vars, tab_vars, delivery_vars>>

\* tab.zoom.apply_offset(n)
ApplyOffset ==
    /\ \E n \in Offsets : \E snap \in snap_candidates(zoom.neighborlist) :
         LET out == apply_offset(config, zoom, n, snap)
         IN  /\ zoom' = out.z
             /\ zoom_call' = ZoomCall("apply_offset", n, out, out.level, Prev(zoom_call))
    /\ UNCHANGED <<config, bridge_vars, history_vars, question_vars, search_vars, inspector_vars, tab_vars, delivery_vars>>

\* config.instance.changed(option), after the option's new value was stored
ConfigChanged(option, cfg) ==
    /\ config' = cfg
    /\ LET out == on_config_changed(cfg, zoom, option)
       IN  /\ zoom' = out.z
           /\ zoom_call' = ZoomCall(option, 0, out, 0, Prev(zoom_call))
    /\ UNCHANGED <<bridge_vars, history_vars, question_vars, search_vars, inspector_vars, tab_vars, delivery_vars>>

ZoomLevelsChanged ==
    \E levels \in LevelLists : ConfigChanged("zoom.levels", [config EXCEPT !.levels = levels])

ZoomDefaultChanged ==
    \E default \in Percs : ConfigChanged("zoom.default", [config EXCEPT !.default = default])

OtherOptionChanged == ConfigChanged("tabs.position", config)

NextZoom ==
    \/ SetFactor
    \/ ApplyOffset
    \/ ZoomLevelsChanged
    \/ ZoomDefaultChanged
    \/ OtherOptionChanged


----------------------------------------------------------------------------
(* Questions: _build_question, ask, ask_async, confirm_async *)

\* usertypes.PromptMode; the source names yesno only
PromptMode == {"yesno", "text", "alert"}
Urls == {"https://example.org"}
\* the url argument of a call: omitted, None or a string
UrlArgs ==
    {[given |-> FALSE, value |-> None]}
      \cup {[given |-> TRUE, value |-> v] : v \in {None} \cup {Some(u) : u \in Urls}}
\* the option argument: None, True or False
Options == {None, Some(TRUE), Some(FALSE)}
\* the default argument
Defaults == {Some("no")}
\* the signals a caller may pass as abort_on
Signals == {"shutting_down", "load_started"}
Answers == {"yes", "no"}
QuestionArgs ==
    [mode : PromptMode, default : Defaults, abort_on : SUBSET Signals,
     url : UrlArgs, option : Options]

\* no question was constructed yet
NoQuestion ==
    [mode |-> "yesno", default |-> None, url |-> None, option |-> None,
     answer |-> None, status |-> "none", is_aborted |-> FALSE,
     abort_on |-> {}, connected |-> {}, autodelete |-> FALSE, deleted |-> FALSE]

\* what the url parameter is bound to: its default "" when the argument is omitted
url_param(arg) == IF arg.given THEN arg.value ELSE Some("")

\* a mutant of the abort_on loop: no signal is connected
connect_abort_on_none(abort_on) == {}

\* for sig in abort_on: sig.connect(question.abort); the signals now connected
connect_abort_on(abort_on) == abort_on

\* a mutant of _build_question: the mode is not tested
build_question_any_mode(mode, default, abort_on, url, option) ==
    LET built ==
          [mode |-> mode, default |-> default, url |-> url, option |-> option,
           answer |-> None, status |-> "pending", is_aborted |-> FALSE,
           abort_on |-> abort_on, connected |-> connect_abort_on(abort_on),
           autodelete |-> FALSE, deleted |-> FALSE]
    IN  IF option # None /\ url = None
        THEN [raised |-> "url", question |-> NoQuestion]
        ELSE [raised |-> "none", question |-> built]

\* a mutant of _build_question: the abort_on signals are connected before the
\* arguments are tested
build_question_connects_first(mode, default, abort_on, url, option) ==
    LET built ==
          [mode |-> mode, default |-> default, url |-> url, option |-> option,
           answer |-> None, status |-> "pending", is_aborted |-> FALSE,
           abort_on |-> abort_on, connected |-> connect_abort_on(abort_on),
           autodelete |-> FALSE, deleted |-> FALSE]
    IN  IF option # None /\ mode # "yesno"
        THEN [raised |-> "mode", question |-> built]
        ELSE IF option # None /\ url = None
        THEN [raised |-> "url", question |-> built]
        ELSE [raised |-> "none", question |-> built]

\* _build_question(title, text, mode=, default=, abort_on=, url=, option=):
\* the question, or the ValueError raised ("mode": line 125, "url": line 127)
build_question(mode, default, abort_on, url, option) ==
    LET built ==
          [mode |-> mode, default |-> default, url |-> url, option |-> option,
           answer |-> None, status |-> "pending", is_aborted |-> FALSE,
           abort_on |-> abort_on, connected |-> connect_abort_on(abort_on),
           autodelete |-> FALSE, deleted |-> FALSE]
    IN  IF option # None /\ mode # "yesno"
        THEN [raised |-> "mode", question |-> NoQuestion]
        ELSE IF option # None /\ url = None
        THEN [raised |-> "url", question |-> NoQuestion]
        ELSE [raised |-> "none", question |-> built]

\* a mutant of GlobalMessageBridge.ask: blocking is always False
ask_emits_nonblocking(q, blocking) == <<[question |-> q, blocking |-> FALSE]>>

\* GlobalMessageBridge.ask(question, blocking=): the ask_question emissions
GlobalMessageBridge_ask(q, blocking) == <<[question |-> q, blocking |-> blocking]>>

\* ask(*args, **kwargs), up to the dispatch of the question
ask(args) ==
    LET b == build_question(args.mode, args.default, args.abort_on,
                            url_param(args.url), args.option)
    IN  [raised |-> b.raised, question |-> b.question,
         emits |-> IF b.raised = "none"
                   THEN GlobalMessageBridge_ask(b.question, TRUE) ELSE <<>>]

\* a mutant of ask: the question's default is returned
ask_answer_default(q) == q.default

\* ask(), after the dispatch returned: answer = question.answer; return answer
ask_answer(q) == q.answer

\* ask_async(title, mode, handler, **kwargs)
ask_async(args) ==
    LET b == build_question(args.mode, args.default, args.abort_on,
                            url_param(args.url), args.option)
        q == [b.question EXCEPT !.autodelete = TRUE]
    IN  [raised |-> b.raised, question |-> q,
         emits |-> IF b.raised = "none"
                   THEN GlobalMessageBridge_ask(q, FALSE) ELSE <<>>]

\* confirm_async(yes_action=, no_action=, cancel_action=, **kwargs)
confirm_async(args) ==
    LET b == build_question("yesno", args.default, args.abort_on,
                            url_param(args.url), args.option)
        q == [b.question EXCEPT !.autodelete = TRUE]
    IN  [raised |-> b.raised, question |-> q,
         emits |-> IF b.raised = "none"
                   THEN GlobalMessageBridge_ask(q, FALSE) ELSE <<>>]

\* usertypes.Question.done(), after the handler set the answer: answered and completed
Question_done(q, answer) ==
    [q EXCEPT !.answer = Some(answer), !.status = "answered", !.deleted = q.autodelete]

\* usertypes.Question.cancel(): cancelled and completed
Question_cancel(q) == [q EXCEPT !.status = "cancelled", !.deleted = q.autodelete]

\* usertypes.Question.abort(): a pending question is cancelled as aborted
Question_abort(q) ==
    IF q.status = "pending"
    THEN [q EXCEPT !.status = "cancelled", !.is_aborted = TRUE, !.deleted = q.autodelete]
    ELSE q

QuestionCall(op, mode, args, out) ==
    [op |-> op, mode |-> mode, url |-> args.url, option |-> args.option,
     raised |-> out.raised, emits |-> out.emits, sig |-> "", answer |-> None,
     result |-> None, aborting |-> args.abort_on # {},
     connected |-> out.question.connected]

InitQuestionCall ==
    [op |-> "init", mode |-> "yesno", url |-> [given |-> FALSE, value |-> None],
     option |-> None, raised |-> "none", emits |-> <<>>, sig |-> "", answer |-> None,
     result |-> None, aborting |-> FALSE, connected |-> {}]

\* A call of ask, ask_async or confirm_async while no other question is in
\* flight. The handler of ask_question takes the question; when blocking is
\* set it waits for the question in a nested event loop, inside the call.
Dispatch(op, mode, args, out) ==
    /\ caller = "idle"
    /\ question.status = "none" \/ question.deleted
    /\ question' = IF out.raised = "none" THEN out.question ELSE question
    /\ caller' = IF \E i \in DOMAIN out.emits : out.emits[i].blocking
                 THEN "blocked" ELSE "idle"
    /\ question_call' = QuestionCall(op, mode, args, out)
    /\ UNCHANGED <<bridge_vars, history_vars, zoom_vars, search_vars, inspector_vars, tab_vars, delivery_vars>>

Ask == \E args \in QuestionArgs : Dispatch("ask", args.mode, args, ask(args))

AskAsync == \E args \in QuestionArgs : Dispatch("ask_async", args.mode, args, ask_async(args))

ConfirmAsync ==
    \E args \in QuestionArgs : Dispatch("confirm_async", "yesno", args, confirm_async(args))

\* the handler answers the pending question
Answer ==
    /\ question.status = "pending"
    /\ \E v \in Answers :
         /\ question' = Question_done(question, v)
         /\ question_call' = [InitQuestionCall EXCEPT !.op = "answer", !.answer = Some(v)]
    /\ UNCHANGED <<caller, bridge_vars, history_vars, zoom_vars, search_vars, inspector_vars, tab_vars, delivery_vars>>

\* the handler cancels the pending question
Cancel ==
    /\ question.status = "pending"
    /\ question' = Question_cancel(question)
    /\ question_call' = [InitQuestionCall EXCEPT !.op = "cancel"]
    /\ UNCHANGED <<caller, bridge_vars, history_vars, zoom_vars, search_vars, inspector_vars, tab_vars, delivery_vars>>

\* a signal fires: the slots connected to it run
Fire ==
    /\ \E sig \in Signals :
         /\ question' = IF sig \in question.connected /\ ~question.deleted
                        THEN Question_abort(question) ELSE question
         /\ question_call' = [InitQuestionCall EXCEPT !.op = "fire", !.sig = sig]
    /\ UNCHANGED <<caller, bridge_vars, history_vars, zoom_vars, search_vars, inspector_vars, tab_vars, delivery_vars>>

\* the handler's nested event loop ends with the question, and ask() returns
Return ==
    /\ caller = "blocked"
    /\ question.status \in {"answered", "cancelled"}
    /\ caller' = "idle"
    /\ question' = [question EXCEPT !.deleted = TRUE]
    /\ question_call' = [InitQuestionCall EXCEPT !.op = "return",
                                                  !.result = ask_answer(question)]
    /\ UNCHANGED <<bridge_vars, history_vars, zoom_vars, search_vars, inspector_vars, tab_vars, delivery_vars>>

NextQuestion == Ask \/ AskAsync \/ ConfirmAsync \/ Answer \/ Cancel \/ Fire \/ Return


----------------------------------------------------------------------------
(* SearchMatch *)

\* largest value written to a field of the SearchMatch (the smallest is -MaxMatch)
MaxMatch == 3
MatchValues == (0 - MaxMatch) .. MaxMatch

\* SearchMatch(current, total): a dataclass of two integers, both 0 by default
SearchMatch(current, total) == [current |-> current, total |-> total]

\* a mutant of reset: total is left as it is
reset_current_only(m) == [m EXCEPT !.current = 0]

\* SearchMatch.reset()
reset(m) == [m EXCEPT !.current = 0, !.total = 0]

\* SearchMatch.is_null()
is_null(m) == m.current = 0 /\ m.total = 0

\* a mutant of at_limit: total != 0 is not tested
at_limit_any_total(m, going_up) ==
    \/ (going_up /\ m.current = 1)
    \/ (~going_up /\ m.current = m.total)

\* SearchMatch.at_limit(going_up)
at_limit(m, going_up) ==
    /\ m.total # 0
    /\ \/ (going_up /\ m.current = 1)
       \/ (~going_up /\ m.current = m.total)

MatchCall(op, going_up, result) ==
    [op |-> op, going_up |-> going_up, result |-> result, from |-> match]

InitMatchCall ==
    [op |-> "init", going_up |-> FALSE, result |-> FALSE, from |-> SearchMatch(0, 0)]

\* the search backend writes the fields of the SearchMatch
UpdateMatch ==
    /\ \E current \in MatchValues, total \in MatchValues :
         match' = SearchMatch(current, total)
    /\ match_call' = MatchCall("update", FALSE, FALSE)
    /\ UNCHANGED <<bridge_vars, history_vars, zoom_vars, question_vars, inspector_vars, tab_vars, delivery_vars>>

\* match.reset()
Reset ==
    /\ match' = reset(match)
    /\ match_call' = MatchCall("reset", FALSE, FALSE)
    /\ UNCHANGED <<bridge_vars, history_vars, zoom_vars, question_vars, inspector_vars, tab_vars, delivery_vars>>

\* match.is_null()
IsNull ==
    /\ match_call' = MatchCall("is_null", FALSE, is_null(match))
    /\ UNCHANGED <<match, bridge_vars, history_vars, zoom_vars, question_vars, inspector_vars, tab_vars, delivery_vars>>

\* match.at_limit(going_up)
AtLimit ==
    /\ \E going_up \in BOOLEAN :
         match_call' = MatchCall("at_limit", going_up, at_limit(match, going_up))
    /\ UNCHANGED <<match, bridge_vars, history_vars, zoom_vars, question_vars, inspector_vars, tab_vars, delivery_vars>>

NextSearch == UpdateMatch \/ Reset \/ IsNull \/ AtLimit


----------------------------------------------------------------------------
(* AbstractWebInspector *)

\* inspector.Position, by name
Position == {"right", "left", "top", "bottom", "window"}

\* A str is a sequence of characters: the 64 characters of the base64
\* alphabet are 0 .. 63 in alphabet order, then "=", then any other ASCII
\* character, then any character outside ASCII.
Pad == 64
OtherAscii == 65
NonAscii == 66

\* The geometries a widget can have, as the bytes saveGeometry() gives
Geoms == {<<1>>, <<1, 217>>, <<1, 217, 208>>}

\* base64.b64encode(data).decode('ASCII')
RECURSIVE b64encode(_)
b64encode(data) ==
    IF Len(data) = 0 THEN <<>>
    ELSE IF Len(data) = 1
    THEN <<data[1] \div 4, (data[1] % 4) * 16, Pad, Pad>>
    ELSE IF Len(data) = 2
    THEN <<data[1] \div 4, (data[1] % 4) * 16 + (data[2] \div 16),
           (data[2] % 16) * 4, Pad>>
    ELSE <<data[1] \div 4, (data[1] % 4) * 16 + (data[2] \div 16),
           (data[2] % 16) * 4 + (data[3] \div 64), data[3] % 64>>
           \o b64encode(SubSeq(data, 4, Len(data)))

\* the number of characters before the first one outside the alphabet
DataLen(s) ==
    LET others == {i \in DOMAIN s : s[i] >= Pad}
    IN  IF others = {} THEN Len(s)
        ELSE (CHOOSE i \in others : \A j \in others : i <= j) - 1

\* the bytes of a run of alphabet characters
RECURSIVE decode_quads(_)
decode_quads(d) ==
    IF Len(d) < 2 THEN <<>>
    ELSE IF Len(d) = 2 THEN <<d[1] * 4 + (d[2] \div 16)>>
    ELSE IF Len(d) = 3
    THEN <<d[1] * 4 + (d[2] \div 16), (d[2] % 16) * 16 + (d[3] \div 4)>>
    ELSE <<d[1] * 4 + (d[2] \div 16), (d[2] % 16) * 16 + (d[3] \div 4),
           (d[3] % 4) * 64 + d[4]>> \o decode_quads(SubSeq(d, 5, Len(d)))

\* base64.b64decode(s, validate=True) of a str: the bytes, or the exception.
\* A character outside ASCII raises ValueError; any other malformed input
\* raises binascii.Error.
b64decode(s) ==
    LET n == DataLen(s)
        p == Len(s) - n
    IN  IF \E i \in DOMAIN s : s[i] = NonAscii
        THEN [raised |-> "ValueError", data |-> <<>>]
        ELSE IF \/ \E i \in DOMAIN s : s[i] > Pad
                \/ \E i \in (n + 1) .. Len(s) : s[i] # Pad
                \/ n = 0 /\ p > 0
                \/ n % 4 = 1
                \/ n % 4 = 2 /\ p # 2
                \/ n % 4 = 3 /\ p # 1
        THEN [raised |-> "binascii.Error", data |-> <<>>]
        ELSE [raised |-> "none", data |-> decode_quads(SubSeq(s, 1, n))]

\* Entries of the state file that no closeEvent wrote: "Q", "QQ=", "!!!!",
\* a character outside ASCII, and "AAAA" (base64 of bytes that are no geometry)
ForeignEntries == {<<16>>, <<16, 16, Pad>>, <<OtherAscii, OtherAscii, OtherAscii, OtherAscii>>,
                   <<NonAscii>>, <<0, 0, 0, 0>>}

\* no inspector, in a tab whose backend does or does not recreate on detaching
NoInspector(needs_recreate) ==
    [exists |-> FALSE, needs_recreate |-> needs_recreate, position |-> None,
     visible |-> FALSE, geom |-> <<1>>]

\* AbstractWebInspector.__init__, through AbstractPrinting..._init_inspector
AbstractWebInspector_init(needs_recreate) ==
    [NoInspector(needs_recreate) EXCEPT !.exists = TRUE]

\* _load_position(): the stored position, right when none is stored
load_position(st) == IF st.position = None THEN "right" ELSE Get(st.position)

\* a mutant of _save_position: nothing is stored
save_position_never(st, position) == st

\* _save_position(position)
save_position(st, position) == [st EXCEPT !.position = Some(position)]

\* a mutant of toggle: the inspector is shown whether or not it was visible
toggle_shows(ins) == [ins EXCEPT !.visible = TRUE]

\* toggle()
toggle(ins) == [ins EXCEPT !.visible = ~ins.visible]

\* _load_state_geometry(): the widget after it, the bytes given to
\* restoreGeometry if it was called, the exception that leaves the method
load_state_geometry(ins, st) ==
    IF st.window = None
    THEN [ins |-> ins, restored |-> None, raised |-> "none"]
    ELSE LET dec == b64decode(Get(st.window))
         IN  IF dec.raised = "binascii.Error"
             THEN [ins |-> ins, restored |-> None, raised |-> "none"]
             ELSE IF dec.raised # "none"
             THEN [ins |-> ins, restored |-> None, raised |-> dec.raised]
             ELSE [ins |-> IF dec.data \in Geoms
                           THEN [ins EXCEPT !.geom = dec.data] ELSE ins,
                   restored |-> Some(dec.data), raised |-> "none"]

\* closeEvent(e): the state store after it
closeEvent(ins, st) == [st EXCEPT !.window = Some(b64encode(ins.geom))]

\* What a set_position call did: tabdata.inspector and the store after it, the
\* branch taken, the position used, what _load_state_geometry did, the calls
\* made on the way in their order (effects), and the inspector that was shut
\* down, as it was then (old)
InspectorOutcome(ins, st, branch, used, load, effects, old) ==
    [ins |-> ins, st |-> st, branch |-> branch, used |-> used,
     loaded |-> load.loaded, restored |-> load.restored, raised |-> load.raised,
     effects |-> effects, old |-> old]

NoLoad == [loaded |-> FALSE, restored |-> None, raised |-> "none"]

RECURSIVE set_position(_, _, _)

\* toggle_inspector(position) of the tab: creates the inspector if there is
\* none, then sets its position. Gives tabdata.inspector and the store after it.
toggle_inspector(ins, st, position) ==
    IF ins.exists THEN set_position(ins, st, position)
    ELSE LET out == set_position(AbstractWebInspector_init(ins.needs_recreate),
                                 st, position)
         IN  [out EXCEPT !.effects = <<"_init_inspector">> \o @]

\* _recreate_inspector(), the slot of the recreate signal
recreate_inspector(ins, st) ==
    toggle_inspector(NoInspector(ins.needs_recreate), st, Some("window"))

\* set_position(position). In the recreate branch the slot of recreate runs
\* inside emit() and an exception of the slot does not come back through
\* emit(); shutdown() of the old inspector follows.
set_position(ins, st, position) ==
    LET pos == IF position = None THEN load_position(st) ELSE Get(position)
        st1 == IF position = None THEN st ELSE save_position(st, pos)
    IN  IF Some(pos) = ins.position
        THEN InspectorOutcome(toggle(ins), st1, "toggle", pos, NoLoad,
                              <<IF toggle(ins).visible THEN "show" ELSE "hide">>, None)
        ELSE IF pos = "window" /\ ins.position # None /\ ins.needs_recreate
        THEN LET new == recreate_inspector(ins, st1)
             IN  InspectorOutcome(new.ins, closeEvent(ins, new.st), "recreate", pos,
                                  [loaded |-> new.loaded, restored |-> new.restored,
                                   raised |-> new.raised],
                                  <<"recreate.emit">> \o new.effects \o <<"shutdown">>,
                                  Some(ins))
        ELSE IF pos = "window"
        THEN LET load == load_state_geometry(ins, st1)
             IN  InspectorOutcome(
                   IF load.raised = "none"
                   THEN [load.ins EXCEPT !.position = Some(pos), !.visible = TRUE]
                   ELSE ins,
                   st1, "window", pos,
                   [loaded |-> TRUE, restored |-> load.restored, raised |-> load.raised],
                   IF load.raised = "none" THEN <<"setParent", "show">>
                   ELSE <<"setParent">>,
                   None)
        ELSE InspectorOutcome([ins EXCEPT !.position = Some(pos), !.visible = TRUE],
                              st1, "dock", pos, NoLoad, <<"set_inspector", "show">>, None)

InitInspectorCall ==
    [op |-> "init", arg |-> None, branch |-> "none", used |-> "right",
     loaded |-> FALSE, restored |-> None, raised |-> "none",
     explicit |-> None, saved |-> None, effects |-> <<>>, old |-> None,
     was |-> NoInspector(FALSE), prev |-> "none"]

\* toggle_inspector(position), which ends in inspector.set_position(position)
SetPosition ==
    /\ \E position \in {None} \cup {Some(p) : p \in Position} :
         LET out == toggle_inspector(inspector, state, position)
         IN  /\ inspector' = out.ins
             /\ state' = out.st
             /\ inspector_call' =
                  [op |-> "set_position", arg |-> position, branch |-> out.branch,
                   used |-> out.used, loaded |-> out.loaded,
                   restored |-> out.restored, raised |-> out.raised,
                   explicit |-> IF position = None THEN inspector_call.explicit
                                ELSE position,
                   saved |-> IF out.branch = "recreate" THEN Some(inspector.geom)
                             ELSE inspector_call.saved,
                   effects |-> out.effects, old |-> out.old, was |-> inspector,
                   prev |-> inspector_call.branch]
    /\ UNCHANGED <<bridge_vars, history_vars, zoom_vars, question_vars, search_vars, tab_vars, delivery_vars>>

\* the user moves or resizes the inspector's widget
MoveWidget ==
    /\ inspector.exists
    /\ \E g \in Geoms \ {inspector.geom} :
         inspector' = [inspector EXCEPT !.geom = g]
    /\ inspector_call' =
         [InitInspectorCall EXCEPT !.op = "move", !.explicit = inspector_call.explicit,
                                   !.saved = inspector_call.saved]
    /\ UNCHANGED <<state, bridge_vars, history_vars, zoom_vars, question_vars, search_vars, tab_vars, delivery_vars>>

\* the user closes the detached window: closeEvent, and the window is hidden
CloseWindow ==
    /\ inspector.exists
    /\ inspector.position = Some("window")
    /\ inspector.visible
    /\ state' = closeEvent(inspector, state)
    /\ inspector' = [inspector EXCEPT !.visible = FALSE]
    /\ inspector_call' =
         [InitInspectorCall EXCEPT !.op = "closeEvent", !.explicit = inspector_call.explicit,
                                   !.saved = Some(inspector.geom)]
    /\ UNCHANGED <<bridge_vars, history_vars, zoom_vars, question_vars, search_vars, tab_vars, delivery_vars>>

\* shutdown(), the slot of the tab's shutting_down: close() and deleteLater();
\* the next inspector is one of another tab over the same state store
Shutdown ==
    /\ inspector.exists
    /\ state' = closeEvent(inspector, state)
    /\ inspector' = NoInspector(inspector.needs_recreate)
    /\ inspector_call' =
         [InitInspectorCall EXCEPT !.op = "shutdown", !.explicit = inspector_call.explicit,
                                   !.saved = Some(inspector.geom)]
    /\ UNCHANGED <<bridge_vars, history_vars, zoom_vars, question_vars, search_vars, tab_vars, delivery_vars>>

NextInspector == SetPosition \/ MoveWidget \/ CloseWindow \/ Shutdown


----------------------------------------------------------------------------
(* AbstractTab: load status *)

\* usertypes.LoadStatus, by name
LoadStatus == {"none", "success", "success_https", "error", "warn", "loading"}
Schemes == {"http", "https"}
Hosts == {"a.example", "b.example"}
\* values that are no LoadStatus member: a str, None
NotLoadStatus == {"success-https", "None"}
TabUrls == [scheme : Schemes, host : Hosts]
\* the values a load_progress signal carries
Progress == {0, 50, 100}

\* AbstractTab.__init__, in a tab whose url() is url
AbstractTab_init(url) == [url |-> url, progress |-> 0, load_status |-> "none"]

\* a mutant of _set_load_status: the status is stored, nothing is emitted
set_load_status_silent(t, val) ==
    IF val \notin LoadStatus
    THEN [tab |-> t, emits |-> <<>>, raised |-> TRUE]
    ELSE [tab |-> [t EXCEPT !.load_status = val], emits |-> <<>>, raised |-> FALSE]

\* _set_load_status(val): the tab after it and the load_status_changed emissions
set_load_status(t, val) ==
    IF val \notin LoadStatus
    THEN [tab |-> t, emits |-> <<>>, raised |-> TRUE]
    ELSE [tab |-> [t EXCEPT !.load_status = val], emits |-> <<val>>, raised |-> FALSE]

\* a mutant of _update_load_status: warn whatever the scheme
update_load_status_any_scheme(t, hosts, ok) ==
    set_load_status(t,
        IF ~ok THEN "error"
        ELSE IF t.url.host \in hosts THEN "warn"
        ELSE IF t.url.scheme = "https" THEN "success_https"
        ELSE "success")

\* _update_load_status(ok)
update_load_status(t, hosts, ok) ==
    LET is_https == t.url.scheme = "https"
    IN  set_load_status(t,
            IF ~ok THEN "error"
            ELSE IF is_https /\ t.url.host \in hosts THEN "warn"
            ELSE IF is_https THEN "success_https"
            ELSE "success")

\* _on_load_started()
on_load_started(t) == set_load_status([t EXCEPT !.progress = 0], "loading")

\* _on_load_progress(perc)
on_load_progress(t, perc) == [t EXCEPT !.progress = perc]

\* the call, with the value of the last load_status_changed emission so far
TabCall(op, ok, out) ==
    [op |-> op, ok |-> ok, emits |-> out.emits, raised |-> out.raised,
     last |-> IF out.emits = <<>> THEN tab_call.last
              ELSE Some(out.emits[Len(out.emits)])]

InitTabCall ==
    [op |-> "init", ok |-> FALSE, emits |-> <<>>, raised |-> FALSE, last |-> None]

\* the backend's page is at another URL
UrlChanged ==
    /\ \E url \in TabUrls \ {tab.url} : tab' = [tab EXCEPT !.url = url]
    /\ tab_call' = [InitTabCall EXCEPT !.op = "url", !.last = tab_call.last]
    /\ UNCHANGED <<insecure_hosts, bridge_vars, history_vars, zoom_vars, question_vars, search_vars, inspector_vars, delivery_vars>>

\* a certificate error happened for a host, in this tab or in another one
CertificateError ==
    /\ \E host \in Hosts \ insecure_hosts : insecure_hosts' = insecure_hosts \cup {host}
    /\ tab_call' = [InitTabCall EXCEPT !.op = "certificate_error", !.last = tab_call.last]
    /\ UNCHANGED <<tab, bridge_vars, history_vars, zoom_vars, question_vars, search_vars, inspector_vars, delivery_vars>>

OnLoadStarted ==
    /\ LET out == on_load_started(tab)
       IN  /\ tab' = out.tab
           /\ tab_call' = TabCall("_on_load_started", FALSE, out)
    /\ UNCHANGED <<insecure_hosts, bridge_vars, history_vars, zoom_vars, question_vars, search_vars, inspector_vars, delivery_vars>>

OnLoadProgress ==
    /\ \E perc \in Progress : tab' = on_load_progress(tab, perc)
    /\ tab_call' = [InitTabCall EXCEPT !.op = "_on_load_progress",
                                        !.last = tab_call.last]
    /\ UNCHANGED <<insecure_hosts, bridge_vars, history_vars, zoom_vars, question_vars, search_vars, inspector_vars, delivery_vars>>

UpdateLoadStatus ==
    /\ \E ok \in BOOLEAN :
         LET out == update_load_status(tab, insecure_hosts, ok)
         IN  /\ tab' = out.tab
             /\ tab_call' = TabCall("_update_load_status", ok, out)
    /\ UNCHANGED <<insecure_hosts, bridge_vars, history_vars, zoom_vars, question_vars, search_vars, inspector_vars, delivery_vars>>

\* a subclass calls _set_load_status(val), with a LoadStatus member or not
SetLoadStatus ==
    /\ \E val \in LoadStatus \cup NotLoadStatus :
         LET out == set_load_status(tab, val)
         IN  /\ tab' = out.tab
             /\ tab_call' = TabCall("_set_load_status", FALSE, out)
    /\ UNCHANGED <<insecure_hosts, bridge_vars, history_vars, zoom_vars, question_vars, search_vars, inspector_vars, delivery_vars>>

NextTab ==
    \/ UrlChanged
    \/ CertificateError
    \/ OnLoadStarted
    \/ OnLoadProgress
    \/ UpdateLoadStatus
    \/ SetLoadStatus


----------------------------------------------------------------------------
(* GlobalMessageBridge with handlers that call back into it: flush() step *)
(* by step. A slot of show_message runs inside emit(), that is between two *)
(* iterations of the loop of flush(), and may call show() or flush().      *)

\* flush(), its first statement: self._connected = True
flush_enter(b) == [b EXCEPT !.connected = TRUE]

\* flush(), the loop: `for msg in self._cache` iterates the list that is the
\* cache when the loop starts
Frame(b) == [msgs |-> b.cache, i |-> 1]

\* flush(), its last statement: self._cache = []
flush_leave(b) == [b EXCEPT !.cache = <<>>]

Top == frames[Len(frames)]

\* a slot of show_message is running: a message of the innermost loop has
\* been emitted and the next iteration has not begun
InHandler == frames # <<>> /\ Top.i > 1

DeliveryCall(op, b2, flushes) ==
    [op |-> op, emits |-> Emissions(bridge, b2), flushes |-> flushes]

\* A caller shows a message while no flush() is under way: show(level, text)
CallerShow ==
    /\ frames = <<>>
    /\ Len(submitted) < MaxShows
    /\ \E l \in MessageLevel, t \in Texts :
         LET b2 == show(bridge, l, t, "", FALSE)
         IN  /\ bridge' = b2
             /\ submitted' = Append(submitted, MessageInfo(l, t, "", FALSE))
             /\ bridge_call' = DeliveryCall("show", b2, bridge_call.flushes)
    /\ UNCHANGED <<frames, history_vars, zoom_vars, question_vars, search_vars, inspector_vars, tab_vars>>

\* A slot of show_message shows a message: show(level, text) inside emit()
HandlerShow ==
    /\ InHandler
    /\ Len(submitted) < MaxShows
    /\ \E l \in MessageLevel, t \in Texts :
         LET b2 == show(bridge, l, t, "", FALSE)
         IN  /\ bridge' = b2
             /\ submitted' = Append(submitted, MessageInfo(l, t, "", FALSE))
             /\ bridge_call' = DeliveryCall("handler show", b2, bridge_call.flushes)
    /\ UNCHANGED <<frames, history_vars, zoom_vars, question_vars, search_vars, inspector_vars, tab_vars>>

\* The display attaches and calls flush(): the call begins
CallerFlush ==
    /\ frames = <<>>
    /\ bridge_call.flushes < MaxFlushes
    /\ bridge' = flush_enter(bridge)
    /\ frames' = <<Frame(bridge)>>
    /\ bridge_call' = DeliveryCall("flush", bridge', bridge_call.flushes + 1)
    /\ UNCHANGED <<submitted, history_vars, zoom_vars, question_vars, search_vars, inspector_vars, tab_vars>>

\* A slot of show_message calls flush() inside emit(): the call begins
HandlerFlush ==
    /\ InHandler
    /\ bridge_call.flushes < MaxFlushes
    /\ bridge' = flush_enter(bridge)
    /\ frames' = Append(frames, Frame(bridge))
    /\ bridge_call' = DeliveryCall("handler flush", bridge', bridge_call.flushes + 1)
    /\ UNCHANGED <<submitted, history_vars, zoom_vars, question_vars, search_vars, inspector_vars, tab_vars>>

\* One iteration of the innermost loop: self.show(**dataclasses.asdict(msg))
FlushDeliver ==
    /\ frames # <<>>
    /\ Top.i <= Len(Top.msgs)
    /\ bridge' = show_asdict(bridge, Top.msgs[Top.i])
    /\ frames' = [frames EXCEPT ![Len(frames)].i = @ + 1]
    /\ bridge_call' = DeliveryCall("deliver", bridge', bridge_call.flushes)
    /\ UNCHANGED <<submitted, history_vars, zoom_vars, question_vars, search_vars, inspector_vars, tab_vars>>

\* The innermost loop is over: self._cache = [], and flush() returns
FlushReturn ==
    /\ frames # <<>>
    /\ Top.i > Len(Top.msgs)
    /\ bridge' = flush_leave(bridge)
    /\ frames' = SubSeq(frames, 1, Len(frames) - 1)
    /\ bridge_call' = DeliveryCall("return", bridge', bridge_call.flushes)
    /\ UNCHANGED <<submitted, history_vars, zoom_vars, question_vars, search_vars, inspector_vars, tab_vars>>

NextDelivery ==
    CallerShow \/ HandlerShow \/ CallerFlush \/ HandlerFlush \/ FlushDeliver \/ FlushReturn

----------------------------------------------------------------------------
(* Specifications *)

\* A component nobody calls in a run stays as constructed: the bridge with
\* no message, a history of one entry, a zoom configured with one level.

InitSpecBridge ==
    /\ bridge = GlobalMessageBridge_init
    /\ submitted = <<>>
    /\ bridge_call = [op |-> "init", emits |-> <<>>, flushes |-> 0]
    /\ history = [len |-> 1, idx |-> 0]
    /\ history_call = [op |-> "init", count |-> 0, from |-> 0, navs |-> <<>>,
                       raised |-> "none"]
    /\ config = [levels |-> <<1>>, default |-> 1]
    /\ zoom = AbstractZoom_init(config)
    /\ zoom_call = InitCall
    /\ question = NoQuestion
    /\ caller = "idle"
    /\ question_call = InitQuestionCall
    /\ match = SearchMatch(0, 0)
    /\ match_call = InitMatchCall
    /\ inspector = NoInspector(FALSE)
    /\ state = [position |-> None, window |-> None]
    /\ inspector_call = InitInspectorCall
    /\ tab = AbstractTab_init([scheme |-> "http", host |-> "a.example"])
    /\ insecure_hosts = {}
    /\ tab_call = InitTabCall
    /\ frames = <<>>

\* A tab's history as the backend holds it: a non-empty list of entries with
\* the current one among them
InitSpecHistory ==
    /\ bridge = GlobalMessageBridge_init
    /\ submitted = <<>>
    /\ bridge_call = [op |-> "init", emits |-> <<>>, flushes |-> 0]
    /\ \E len \in 1 .. MaxLen : \E idx \in 0 .. (len - 1) :
         history = [len |-> len, idx |-> idx]
    /\ history_call = [op |-> "init", count |-> 0, from |-> 0, navs |-> <<>>,
                       raised |-> "none"]
    /\ config = [levels |-> <<1>>, default |-> 1]
    /\ zoom = AbstractZoom_init(config)
    /\ zoom_call = InitCall
    /\ question = NoQuestion
    /\ caller = "idle"
    /\ question_call = InitQuestionCall
    /\ match = SearchMatch(0, 0)
    /\ match_call = InitMatchCall
    /\ inspector = NoInspector(FALSE)
    /\ state = [position |-> None, window |-> None]
    /\ inspector_call = InitInspectorCall
    /\ tab = AbstractTab_init([scheme |-> "http", host |-> "a.example"])
    /\ insecure_hosts = {}
    /\ tab_call = InitTabCall
    /\ frames = <<>>

\* A tab's zoom object constructed under any configuration
InitSpecZoom ==
    /\ bridge = GlobalMessageBridge_init
    /\ submitted = <<>>
    /\ bridge_call = [op |-> "init", emits |-> <<>>, flushes |-> 0]
    /\ history = [len |-> 1, idx |-> 0]
    /\ history_call = [op |-> "init", count |-> 0, from |-> 0, navs |-> <<>>,
                       raised |-> "none"]
    /\ \E levels \in LevelLists, default \in Percs :
         config = [levels |-> levels, default |-> default]
    /\ zoom = AbstractZoom_init(config)
    /\ zoom_call = InitCall
    /\ question = NoQuestion
    /\ caller = "idle"
    /\ question_call = InitQuestionCall
    /\ match = SearchMatch(0, 0)
    /\ match_call = InitMatchCall
    /\ inspector = NoInspector(FALSE)
    /\ state = [position |-> None, window |-> None]
    /\ inspector_call = InitInspectorCall
    /\ tab = AbstractTab_init([scheme |-> "http", host |-> "a.example"])
    /\ insecure_hosts = {}
    /\ tab_call = InitTabCall
    /\ frames = <<>>


\* The question flow before any question was asked
InitSpecQuestion ==
    /\ bridge = GlobalMessageBridge_init
    /\ submitted = <<>>
    /\ bridge_call = [op |-> "init", emits |-> <<>>, flushes |-> 0]
    /\ history = [len |-> 1, idx |-> 0]
    /\ history_call = [op |-> "init", count |-> 0, from |-> 0, navs |-> <<>>,
                       raised |-> "none"]
    /\ config = [levels |-> <<1>>, default |-> 1]
    /\ zoom = AbstractZoom_init(config)
    /\ zoom_call = InitCall
    /\ question = NoQuestion
    /\ caller = "idle"
    /\ question_call = InitQuestionCall
    /\ match = SearchMatch(0, 0)
    /\ match_call = InitMatchCall
    /\ inspector = NoInspector(FALSE)
    /\ state = [position |-> None, window |-> None]
    /\ inspector_call = InitInspectorCall
    /\ tab = AbstractTab_init([scheme |-> "http", host |-> "a.example"])
    /\ insecure_hosts = {}
    /\ tab_call = InitTabCall
    /\ frames = <<>>


\* A search as AbstractSearch.__init__ leaves it: match = SearchMatch()
InitSpecSearch ==
    /\ bridge = GlobalMessageBridge_init
    /\ submitted = <<>>
    /\ bridge_call = [op |-> "init", emits |-> <<>>, flushes |-> 0]
    /\ history = [len |-> 1, idx |-> 0]
    /\ history_call = [op |-> "init", count |-> 0, from |-> 0, navs |-> <<>>,
                       raised |-> "none"]
    /\ config = [levels |-> <<1>>, default |-> 1]
    /\ zoom = AbstractZoom_init(config)
    /\ zoom_call = InitCall
    /\ question = NoQuestion
    /\ caller = "idle"
    /\ question_call = InitQuestionCall
    /\ match = SearchMatch(0, 0)
    /\ match_call = InitMatchCall
    /\ inspector = NoInspector(FALSE)
    /\ state = [position |-> None, window |-> None]
    /\ inspector_call = InitInspectorCall
    /\ tab = AbstractTab_init([scheme |-> "http", host |-> "a.example"])
    /\ insecure_hosts = {}
    /\ tab_call = InitTabCall
    /\ frames = <<>>


\* A tab without an inspector yet, over a state store as a state file gives
\* it: with or without a position, and without a window entry, with one a
\* closeEvent wrote, or with a foreign one
InitSpecInspector ==
    /\ bridge = GlobalMessageBridge_init
    /\ submitted = <<>>
    /\ bridge_call = [op |-> "init", emits |-> <<>>, flushes |-> 0]
    /\ history = [len |-> 1, idx |-> 0]
    /\ history_call = [op |-> "init", count |-> 0, from |-> 0, navs |-> <<>>,
                       raised |-> "none"]
    /\ config = [levels |-> <<1>>, default |-> 1]
    /\ zoom = AbstractZoom_init(config)
    /\ zoom_call = InitCall
    /\ question = NoQuestion
    /\ caller = "idle"
    /\ question_call = InitQuestionCall
    /\ match = SearchMatch(0, 0)
    /\ match_call = InitMatchCall
    /\ \E needs_recreate \in BOOLEAN : inspector = NoInspector(needs_recreate)
    /\ \E position \in {None} \cup {Some(p) : p \in Position},
          window \in {None} \cup {Some(b64encode(g)) : g \in Geoms}
                      \cup {Some(s) : s \in ForeignEntries} :
         state = [position |-> position, window |-> window]
    /\ inspector_call = InitInspectorCall
    /\ tab = AbstractTab_init([scheme |-> "http", host |-> "a.example"])
    /\ insecure_hosts = {}
    /\ tab_call = InitTabCall
    /\ frames = <<>>


\* A new tab at any URL, before any certificate error in the process
InitSpecTab ==
    /\ bridge = GlobalMessageBridge_init
    /\ submitted = <<>>
    /\ bridge_call = [op |-> "init", emits |-> <<>>, flushes |-> 0]
    /\ history = [len |-> 1, idx |-> 0]
    /\ history_call = [op |-> "init", count |-> 0, from |-> 0, navs |-> <<>>,
                       raised |-> "none"]
    /\ config = [levels |-> <<1>>, default |-> 1]
    /\ zoom = AbstractZoom_init(config)
    /\ zoom_call = InitCall
    /\ question = NoQuestion
    /\ caller = "idle"
    /\ question_call = InitQuestionCall
    /\ match = SearchMatch(0, 0)
    /\ match_call = InitMatchCall
    /\ inspector = NoInspector(FALSE)
    /\ state = [position |-> None, window |-> None]
    /\ inspector_call = InitInspectorCall
    /\ \E url \in TabUrls : tab = AbstractTab_init(url)
    /\ insecure_hosts = {}
    /\ tab_call = InitTabCall
    /\ frames = <<>>

\* A bridge as constructed, with no flush() under way
InitSpecDelivery ==
    /\ bridge = GlobalMessageBridge_init
    /\ submitted = <<>>
    /\ bridge_call = [op |-> "init", emits |-> <<>>, flushes |-> 0]
    /\ history = [len |-> 1, idx |-> 0]
    /\ history_call = [op |-> "init", count |-> 0, from |-> 0, navs |-> <<>>,
                       raised |-> "none"]
    /\ config = [levels |-> <<1>>, default |-> 1]
    /\ zoom = AbstractZoom_init(config)
    /\ zoom_call = InitCall
    /\ question = NoQuestion
    /\ caller = "idle"
    /\ question_call = InitQuestionCall
    /\ match = SearchMatch(0, 0)
    /\ match_call = InitMatchCall
    /\ inspector = NoInspector(FALSE)
    /\ state = [position |-> None, window |-> None]
    /\ inspector_call = InitInspectorCall
    /\ tab = AbstractTab_init([scheme |-> "http", host |-> "a.example"])
    /\ insecure_hosts = {}
    /\ tab_call = InitTabCall
    /\ frames = <<>>

SpecBridge == InitSpecBridge /\ [][NextBridge]_vars
SpecHistory == InitSpecHistory /\ [][NextHistory]_vars
SpecZoom == InitSpecZoom /\ [][NextZoom]_vars
SpecQuestion == InitSpecQuestion /\ [][NextQuestion]_vars
SpecSearch == InitSpecSearch /\ [][NextSearch]_vars
SpecInspector == InitSpecInspector /\ [][NextInspector]_vars
SpecTab == InitSpecTab /\ [][NextTab]_vars
SpecDelivery == InitSpecDelivery /\ [][NextDelivery]_vars
\* The nested event loop of a blocking ask ends once its question completed:
\* a return that stays possible is taken.
SpecQuestionFair == SpecQuestion /\ WF_vars(Return)

----------------------------------------------------------------------------
(* Claims about GlobalMessageBridge, checked under SpecBridge *)

\* C1: for any show calls made before the first flush(), nothing is emitted
\* before flush() (the messages sit in the cache in call order), and the first
\* flush() emits exactly those messages, each once, in the order of the calls.
C1_BufferedThenFlushedInOrder ==
    /\ [](~bridge.connected => (bridge.show_message = <<>> /\ bridge.cache = submitted))
    /\ [][(~bridge.connected /\ bridge_call'.op = "flush")
            => (bridge_call'.emits = submitted /\ bridge'.show_message = submitted)]_vars

\* C1: the first flush() has delivered two different buffered messages
C1_Witness ==
    /\ bridge_call.op = "flush"
    /\ bridge_call.flushes = 1
    /\ Len(bridge_call.emits) >= 2
    /\ bridge_call.emits = submitted
    /\ bridge_call.emits[1] # bridge_call.emits[2]

\* C2: once flush() has returned the cache is empty and stays empty: a later
\* show emits its message exactly once during the call and buffers nothing, and
\* a further flush() emits nothing.
C2_NoBufferingAfterFlush ==
    /\ [](bridge.connected => bridge.cache = <<>>)
    /\ [][bridge.connected =>
            /\ (bridge_call'.op = "show" =>
                  /\ bridge_call'.emits = <<submitted'[Len(submitted')]>>
                  /\ bridge'.cache = <<>>)
            /\ (bridge_call'.op = "flush" => bridge_call'.emits = <<>>)]_vars

\* C2: a show made after a second flush() has emitted its message
C2_Witness ==
    /\ bridge_call.op = "show"
    /\ bridge_call.flushes = 2
    /\ Len(bridge_call.emits) = 1
    /\ Len(submitted) >= 2
    /\ bridge.show_message = submitted


\* what show(level, text, replace, rich) emits on the bridge b
Delivered(b, level, text, replace, rich) ==
    Emissions(b, show(b, level, text, replace, rich))

\* C30: buffering does not alter a message: for every show(level, text,
\* replace, rich) made before flush(), what flush() emits for it is what the
\* same call emits when made after that flush().
C30_BufferedEqualsDirect ==
    [][(~bridge.connected /\ bridge_call'.op = "flush")
         => /\ Len(bridge_call'.emits) = Len(submitted)
            /\ \A i \in DOMAIN submitted :
                 <<bridge_call'.emits[i]>> =
                     Delivered(bridge', submitted[i].level, submitted[i].text,
                               submitted[i].replace, submitted[i].rich)]_vars

\* C30 happens: the first flush() has delivered a buffered message shown with
\* a replace key and rich=True
C30_Witness ==
    /\ bridge_call.op = "flush"
    /\ bridge_call.flushes = 1
    /\ Len(bridge_call.emits) >= 1
    /\ bridge_call.emits[1].replace = "id"
    /\ bridge_call.emits[1].rich
    /\ bridge.cache = <<>>

----------------------------------------------------------------------------
(* Claims about AbstractHistory, checked under SpecHistory *)

Max(a, b) == IF a >= b THEN a ELSE b
Min(a, b) == IF a <= b THEN a ELSE b

\* C3: back(count) and forward(count) with count < 0 raise and navigate
\* nowhere: _go_to_item is not called and the current index is unchanged.
C3_NegativeCountRejected ==
    (history_call.op \in {"back", "forward"} /\ history_call.count < 0)
        => /\ history_call.raised = "count"
           /\ history_call.navs = <<>>
           /\ history.idx = history_call.from

\* C3: forward(count) with a negative count was rejected away from the first entry
C3_Witness ==
    /\ history_call.op = "forward"
    /\ history_call.count < 0
    /\ history_call.raised = "count"
    /\ history.idx > 0
    /\ history.idx < history.len - 1

\* C4: back(count) with count >= 0 at index i navigates exactly once, to
\* max(0, i - count), and raises the boundary error iff count > i; for
\* count >= length it navigates to index 0 and raises.
C4_BackClampsAndReports ==
    (history_call.op = "back" /\ history_call.count >= 0)
        => /\ history_call.navs = <<Max(0, history_call.from - history_call.count)>>
           /\ history.idx = Max(0, history_call.from - history_call.count)
           /\ history_call.raised \in {"none", "boundary"}
           /\ (history_call.raised = "boundary") <=> (history_call.count > history_call.from)
           /\ (history_call.count >= history.len)
                => (history_call.navs = <<0>> /\ history_call.raised = "boundary")

\* C4: back(count) with count >= length moved from a later entry to index 0 and raised
C4_Witness ==
    /\ history_call.op = "back"
    /\ history_call.count >= history.len
    /\ history_call.from > 0
    /\ history_call.navs = <<0>>
    /\ history.idx = 0
    /\ history_call.raised = "boundary"

\* C5: forward(count) with count >= 0 at index i of a history of length L
\* navigates exactly once, to min(L - 1, i + count), and raises the boundary
\* error iff i + count >= L: the move to the last entry happens although the
\* call fails.
C5_ForwardClampsAndReports ==
    (history_call.op = "forward" /\ history_call.count >= 0)
        => /\ history_call.navs =
                <<Min(history.len - 1, history_call.from + history_call.count)>>
           /\ history.idx = Min(history.len - 1, history_call.from + history_call.count)
           /\ history_call.raised \in {"none", "boundary"}
           /\ (history_call.raised = "boundary")
                <=> (history_call.from + history_call.count >= history.len)

\* C5: forward(count) raised the boundary error and still moved to the last entry
C5_Witness ==
    /\ history_call.op = "forward"
    /\ history_call.raised = "boundary"
    /\ history_call.from < history.len - 1
    /\ history.idx = history.len - 1
    /\ history_call.navs = <<history.len - 1>>


\* C26: from a non-empty history with its current index within 0 .. len-1,
\* after any back and forward calls with any counts, raising or not, every
\* index navigated to and the current index lie within 0 .. len-1, and
\* back(0) and forward(0) navigate to the current index without raising.
C26_NavigationStaysInRange ==
    /\ history.len >= 1
    /\ history.idx \in 0 .. (history.len - 1)
    /\ \A k \in DOMAIN history_call.navs :
         history_call.navs[k] \in 0 .. (history.len - 1)
    /\ (history_call.op \in {"back", "forward"} /\ history_call.count = 0)
         => /\ history_call.raised = "none"
            /\ history_call.navs = <<history_call.from>>
            /\ history.idx = history_call.from

\* C26 happens: forward(0) at the last entry of a history of several entries
C26_Witness ==
    /\ history_call.op = "forward"
    /\ history_call.count = 0
    /\ history_call.from = history.len - 1
    /\ history_call.navs = <<history.len - 1>>
    /\ history.len >= 2

----------------------------------------------------------------------------
(* Claims about AbstractZoom, checked under SpecZoom *)

\* the current zoom percentage is an entry of the configured level list
OnList(cfg, z) == \E i \in DOMAIN cfg.levels : perc_to_factor(cfg.levels[i]) = factor(z)

\* the position of that entry
CurrentPos(cfg, z) ==
    CHOOSE i \in DOMAIN cfg.levels : perc_to_factor(cfg.levels[i]) = factor(z)

\* a list position moved by n steps and stopped at the ends of the list
Stepped(cfg, i, n) == Max(1, Min(Len(cfg.levels), i + n))

\* the levels of the list with the smallest distance to a percentage, which is
\* given in steps of 1/Grain percent
NearestLevels(cfg, p) ==
    {cfg.levels[i] : i \in
        {i \in DOMAIN cfg.levels :
            \A j \in DOMAIN cfg.levels :
                Abs(cfg.levels[i] * Grain - p) <= Abs(cfg.levels[j] * Grain - p)}}

\* C6: when the current zoom percentage is an entry of the level list,
\* apply_offset(n) moves n positions from that entry, stopping at the first or
\* last entry without an error, returns the percentage there and makes
\* factor() that percentage / 100.
C6_StepsFromCurrentEntry ==
    [][(zoom_call'.op = "apply_offset" /\ OnList(config, zoom))
         => LET j == Stepped(config, CurrentPos(config, zoom), zoom_call'.arg)
            IN  /\ ~zoom_call'.raised
                /\ zoom_call'.level = config.levels[j]
                /\ factor(zoom') = perc_to_factor(config.levels[j])]_vars

\* the neighbor list's pointer stands for the current zoom percentage
PointerInSync(cfg, z) ==
    IF z.neighborlist.fuzzyval # None
    THEN perc_to_factor(Get(z.neighborlist.fuzzyval)) = factor(z)
    ELSE perc_to_factor(cfg.levels[Get(z.neighborlist.idx)]) = factor(z)

\* C6 where the pointer is in sync: what apply_offset does when neither a
\* rejected set_factor (C27) nor a config change (C10) has moved the fuzzyval
\* away from the current factor
C6_StepsFromCurrentEntryInSync ==
    [][(zoom_call'.op = "apply_offset" /\ OnList(config, zoom)
                                       /\ PointerInSync(config, zoom))
         => LET j == Stepped(config, CurrentPos(config, zoom), zoom_call'.arg)
            IN  /\ ~zoom_call'.raised
                /\ zoom_call'.level = config.levels[j]
                /\ factor(zoom') = perc_to_factor(config.levels[j])]_vars

\* the current percentage is on the list and the pointer stands for another
Stale(cfg, z) == OnList(cfg, z) /\ ~PointerInSync(cfg, z)

\* the pointer leaves the current percentage only by a rejected set_factor
\* (C27) or by a config change on a zoom that was changed from the default (C10)
C6_StaleOnlyByC10OrC27 ==
    [][(~Stale(config, zoom) /\ Stale(config', zoom'))
         => \/ (zoom_call'.op = "set_factor" /\ zoom_call'.raised)
            \/ (zoom_call'.op \in {"zoom.levels", "zoom.default"}
                  /\ zoom.default_zoom_changed)]_vars

\* C7: apply_offset(0) is idempotent: a call that follows an apply_offset(0)
\* returns the same percentage and leaves factor(), and the whole zoom
\* object, unchanged.
C7_ApplyOffsetZeroIdempotent ==
    [][(/\ zoom_call.op = "apply_offset" /\ zoom_call.arg = 0
        /\ zoom_call'.op = "apply_offset" /\ zoom_call'.arg = 0)
         => /\ zoom_call'.level = zoom_call.level
            /\ factor(zoom') = factor(zoom)
            /\ zoom' = zoom]_vars

\* C7: a second apply_offset(0) in a row has run, on a factor that the first
\* one synced to a list entry other than the default
C7_Witness ==
    /\ zoom_call.op = "apply_offset" /\ zoom_call.arg = 0
    /\ zoom_call.prev = "apply_offset(0)"
    /\ factor(zoom) # perc_to_factor(config.default)
    /\ factor(zoom) = perc_to_factor(zoom_call.level)

\* C8: set_factor(f) with f < 0 raises, leaves factor() and the
\* default-zoom-changed flag as they were and does not call
\* _set_factor_internal.
C8_NegativeFactorRejected ==
    [][(zoom_call'.op = "set_factor" /\ zoom_call'.arg < 0)
         => /\ zoom_call'.raised
            /\ factor(zoom') = factor(zoom)
            /\ zoom'.default_zoom_changed = zoom.default_zoom_changed
            /\ zoom_call'.internal = <<>>]_vars

\* C8: a negative factor was rejected on a zoom that had been changed from the default
C8_Witness ==
    /\ zoom_call.op = "set_factor" /\ zoom_call.arg < 0
    /\ zoom_call.raised
    /\ zoom_call.internal = <<>>
    /\ zoom.default_zoom_changed
    /\ factor(zoom) # perc_to_factor(config.default)

C10_ReconfigureKeepsPosition ==
    [][(/\ zoom_call.op = "zoom.levels"
        /\ zoom.default_zoom_changed
        /\ OnList(config, zoom)
        /\ zoom_call'.op = "apply_offset")
         => zoom_call'.level =
              config.levels[Stepped(config, CurrentPos(config, zoom), zoom_call'.arg)]]_vars



\* C22: on a change of zoom.default or zoom.levels a zoom never changed away
\* from the default takes the new default as its factor, and a zoom whose
\* last set factor differed from the default keeps its factor; a change of
\* any other option leaves the factor and the level list as they are.
C22_ConfigChangeFollowsFlag ==
    [][/\ zoom_call'.op \in {"zoom.levels", "zoom.default"}
            => /\ ~zoom.default_zoom_changed
                    => factor(zoom') = perc_to_factor(config'.default)
               /\ (zoom.default_zoom_changed
                     \/ factor(zoom) # perc_to_factor(config.default))
                    => factor(zoom') = factor(zoom)
       /\ zoom_call'.op = "tabs.position"
            => (zoom' = zoom /\ config' = config)]_vars

C22_Witness ==
    /\ zoom_call.op = "zoom.default"
    /\ ~zoom.default_zoom_changed
    /\ factor(zoom) = perc_to_factor(config.default)
    /\ config.default > 1
    /\ zoom_call.internal = <<factor(zoom)>>

\* C27: a set_factor call rejected for a negative factor leaves the whole
\* zoom state as it was, the fuzzyval of the neighbor list included (so that
\* a following apply_offset(n) returns what it would have returned without
\* the rejected call).
C27_RejectedSetFactorChangesNothing ==
    [][(zoom_call'.op = "set_factor" /\ zoom_call'.raised) => zoom' = zoom]_vars

\* What holds of C27: the factor and the flag are as they were, and nothing
\* was handed to _set_factor_internal
C27_RejectedSetFactorKeepsFactor ==
    [][(zoom_call'.op = "set_factor" /\ zoom_call'.raised)
         => /\ factor(zoom') = factor(zoom)
            /\ zoom'.default_zoom_changed = zoom.default_zoom_changed
            /\ zoom'.neighborlist.items = zoom.neighborlist.items
            /\ zoom'.neighborlist.idx = zoom.neighborlist.idx
            /\ zoom_call'.internal = <<>>]_vars

\* C28, as claimed: in every reachable state the flag _default_zoom_changed
\* is true exactly when the current factor differs from the configured
\* default factor.
C28_FlagIffFactorDiffers ==
    zoom.default_zoom_changed <=> factor(zoom) # perc_to_factor(config.default)

\* What holds of C28: a false flag means the factor is the configured default;
\* an accepted set_factor or apply_offset leaves the flag true exactly when
\* its factor differs from the default configured then; a config change
\* never alters a true flag.
C28_FlagFalseMeansDefault ==
    /\ [](/\ ~zoom.default_zoom_changed
               => factor(zoom) = perc_to_factor(config.default)
          /\ (zoom_call.op \in {"set_factor", "apply_offset"} /\ ~zoom_call.raised)
               => (zoom.default_zoom_changed
                     <=> factor(zoom) # perc_to_factor(config.default)))
    /\ [][(zoom_call'.op \in {"zoom.levels", "zoom.default"} /\ zoom.default_zoom_changed)
            => zoom'.default_zoom_changed]_vars

----------------------------------------------------------------------------
(* Claims about the question flow, checked under SpecQuestion *)

IsConstruction == question_call.op \in {"ask", "ask_async", "confirm_async"}

\* C11: constructing a yes/no question with option set and the url argument
\* omitted fails with an error; with option and a URL it succeeds.
C11_OptionNeedsUrl ==
    (IsConstruction /\ question_call.mode = "yesno" /\ question_call.option # None)
      => /\ ~question_call.url.given => question_call.raised # "none"
         /\ (question_call.url.given /\ question_call.url.value # None)
              => question_call.raised = "none"

\* What the code does instead: with option set on a yes/no question, only an
\* explicit url=None is rejected; an omitted url is bound to "" and accepted.
C11_OnlyExplicitNoneRejected ==
    (IsConstruction /\ question_call.mode = "yesno" /\ question_call.option # None)
      => (question_call.raised # "none"
            <=> (question_call.url.given /\ question_call.url.value = None))

\* C12: constructing a question with option set and a mode other than yes/no
\* fails, for every such mode and whether or not a URL is given; with option
\* None every mode is accepted.
C12_OptionOnlyWithYesNo ==
    IsConstruction
      => /\ (question_call.option # None /\ question_call.mode # "yesno")
              => question_call.raised # "none"
         /\ question_call.option = None => question_call.raised = "none"

C12_Witness ==
    /\ question_call.op = "ask"
    /\ question_call.option # None
    /\ question_call.mode = "text"
    /\ question_call.url.given /\ question_call.url.value # None
    /\ question_call.raised = "mode"

\* C13: every call of ask, ask_async or confirm_async with valid arguments
\* emits ask_question exactly once, with its question, blocking=True for ask
\* and blocking=False for ask_async and confirm_async.
C13_DispatchedOnce ==
    (IsConstruction /\ question_call.raised = "none")
      => /\ Len(question_call.emits) = 1
         /\ question_call.emits[1].question = question
         /\ question_call.emits[1].blocking = (question_call.op = "ask")

C13_Witness ==
    /\ question_call.op = "confirm_async"
    /\ question_call.raised = "none"
    /\ Len(question_call.emits) = 1
    /\ ~question_call.emits[1].blocking

Terminal == {"answered", "cancelled"}

\* C14: a question moves from pending to exactly one terminal state (answered
\* or cancelled) and never leaves it; the blocking ask returns only after
\* that transition, with the given answer when answered and None when
\* cancelled.
C14_OneTerminalState ==
    [][/\ question.status = "pending"
            => question'.status \in {"pending"} \cup Terminal
       /\ question.status \in Terminal
            => \/ /\ question'.status = question.status
                  /\ question'.answer = question.answer
               \/ /\ question_call'.op \in {"ask", "ask_async", "confirm_async"}
                  /\ question'.status = "pending"
       /\ question_call'.op = "answer"
            => /\ question'.status = "answered"
               /\ question'.answer = question_call'.answer
               /\ question'.answer # None
       /\ (caller = "blocked" /\ caller' = "idle")
            => /\ question.status \in Terminal
               /\ question_call'.result =
                    IF question.status = "answered" THEN question.answer ELSE None]_vars

C14_Witness ==
    /\ question_call.op = "return"
    /\ question.status = "answered"
    /\ question_call.result = Some("yes")

\* C15: when a signal given as abort_on fires while the question is pending,
\* the question is aborted, and a caller blocked in ask on it eventually
\* returns. Checked under SpecQuestionFair.
C15_AbortResolvesAsk ==
    /\ [][(/\ question_call'.op = "fire"
           /\ question_call'.sig \in question.abort_on
           /\ question.status = "pending")
            => (question'.is_aborted /\ question'.status = "cancelled")]_vars
    /\ (caller = "blocked" /\ question.is_aborted) ~> (caller = "idle")

C15_Witness ==
    /\ question_call.op = "return"
    /\ question.is_aborted
    /\ caller = "idle"
    /\ question_call.result = None



\* C29: when _build_question rejects the arguments, ask, ask_async and
\* confirm_async dispatch nothing: ask_question is not emitted, no abort_on
\* signal was connected, the caller is not blocked, the question in the
\* handler's hands is the one of before the call, and until the next call no
\* handler or action is called: nothing answers or cancels and a firing
\* signal aborts nothing.
C29_RejectedDispatchesNothing ==
    /\ []((IsConstruction /\ question_call.raised # "none")
            => /\ question_call.emits = <<>>
               /\ question_call.connected = {}
               /\ caller = "idle"
               /\ question.status # "pending")
    /\ [][/\ (question_call'.op \in {"ask", "ask_async", "confirm_async"}
              /\ question_call'.raised # "none")
               => (question' = question /\ caller' = caller)
          /\ (IsConstruction /\ question_call.raised # "none")
               => /\ question_call'.op \notin {"answer", "cancel", "return"}
                  /\ question_call'.op = "fire" => question' = question]_vars

\* C29 happens: ask_async with an option, url=None and abort_on signals
\* is rejected, after an earlier question was asked and answered
C29_Witness ==
    /\ question_call.op = "ask_async"
    /\ question_call.raised = "url"
    /\ question_call.aborting
    /\ question_call.connected = {}
    /\ question.status = "answered"

----------------------------------------------------------------------------
(* Claims about SearchMatch, checked under SpecSearch *)

\* C16: for all integer current and total, is_null() holds iff current = 0 and
\* total = 0; at_limit(going_up=True) holds iff current = 1 and total # 0;
\* at_limit(going_up=False) holds iff current = total and total # 0.
C16_NullAndLimit ==
    /\ match_call.op = "is_null"
         => (match_call.result <=> (match.current = 0 /\ match.total = 0))
    /\ (match_call.op = "at_limit" /\ match_call.going_up)
         => (match_call.result <=> (match.current = 1 /\ match.total # 0))
    /\ (match_call.op = "at_limit" /\ ~match_call.going_up)
         => (match_call.result <=> (match.current = match.total /\ match.total # 0))

C16_Witness ==
    /\ match_call.op = "at_limit"
    /\ ~match_call.going_up
    /\ match_call.result
    /\ match.current = match.total
    /\ match.total > 1

----------------------------------------------------------------------------
(* Claims about AbstractWebInspector, checked under SpecInspector *)

\* C18: after any sequence of set_position calls the persisted position is
\* the name of the most recent position asked for explicitly (not None),
\* whichever branch that call took; set_position(None) uses the persisted
\* position (right when none is stored) and never changes the persisted value.
C18_PersistedIsLastExplicit ==
    /\ [](inspector_call.explicit # None => state.position = inspector_call.explicit)
    /\ [][(inspector_call'.op = "set_position" /\ inspector_call'.arg = None)
            => /\ state'.position = state.position
               /\ inspector_call'.used =
                    IF state.position = None THEN "right" ELSE Get(state.position)]_vars

C18_Witness ==
    /\ inspector_call.op = "set_position"
    /\ inspector_call.branch = "recreate"
    /\ inspector_call.arg = Some("window")
    /\ state.position = Some("window")

\* entries of the state store that are not valid base64
NotBase64 == {<<16>>, <<16, 16, Pad>>, <<OtherAscii, OtherAscii, OtherAscii, OtherAscii>>,
              <<NonAscii>>}

\* C19: the bytes saved by closeEvent are exactly the bytes passed to
\* restoreGeometry by a later _load_state_geometry; a missing entry or an
\* entry that is not valid base64 causes no restore and no error to the caller.
C19_GeometryRoundTrip ==
    [][inspector_call'.loaded
         => /\ inspector_call.saved # None
                 => inspector_call'.restored = inspector_call.saved
            /\ (state.window = None \/ (state.window # None /\ Get(state.window) \in NotBase64))
                 => (inspector_call'.restored = None /\ inspector_call'.raised = "none")]_vars

\* What holds of C19: the round trip, and the silence for a missing entry and
\* for an entry of ASCII characters that is not valid base64
C19_RoundTripAndAsciiGarbage ==
    [][inspector_call'.loaded
         => /\ inspector_call.saved # None
                 => inspector_call'.restored = inspector_call.saved
            /\ (state.window = None
                  \/ (state.window # None /\ Get(state.window) \in NotBase64 \ {<<NonAscii>>}))
                 => (inspector_call'.restored = None /\ inspector_call'.raised = "none")]_vars



\* What the calls of a set_position did: how often name was called
Count(effects, name) == Cardinality({i \in DOMAIN effects : effects[i] = name})

\* C23: set_position with the position the inspector is already in (given, or
\* None resolving to it) only toggles the visibility: the position is
\* unchanged, the inspector is neither attached to the splitter again nor
\* re-parented, and two such calls in a row restore the original visibility.
C23_SamePositionOnlyToggles ==
    [][(/\ inspector_call'.op = "set_position"
        /\ inspector.exists
        /\ inspector.position = Some(inspector_call'.used))
         => /\ inspector_call'.branch = "toggle"
            /\ inspector' = [inspector EXCEPT !.visible = ~inspector.visible]
            /\ inspector_call'.effects \in {<<"show">>, <<"hide">>}
            /\ inspector_call.branch = "toggle" => inspector' = inspector_call.was]_vars

\* C23 happens: two calls in a row with the position the inspector is in, the
\* first given and the second None, after which it is visible again
C23_Witness ==
    /\ inspector_call.op = "set_position"
    /\ inspector_call.branch = "toggle"
    /\ inspector_call.prev = "toggle"
    /\ inspector_call.arg = None
    /\ inspector_call.explicit = Some("left")
    /\ inspector_call.was.position = inspector.position
    /\ ~inspector_call.was.visible
    /\ inspector.visible
    /\ inspector.position = Some("left")

\* C24: detaching a positioned inspector to a window when the backend needs
\* recreation ends without recursion: recreate is emitted once, the tab creates
\* exactly one new inspector, which takes the window branch and is in window
\* position, and the old inspector is shut down with its position unchanged.
C24_RecreateOnceThenWindow ==
    inspector_call.branch = "recreate"
        => /\ Count(inspector_call.effects, "recreate.emit") = 1
           /\ Count(inspector_call.effects, "_init_inspector") = 1
           /\ Count(inspector_call.effects, "shutdown") = 1
           /\ inspector_call.old = Some(inspector_call.was)
           /\ inspector.exists
           /\ inspector.position = Some("window")
           /\ inspector.visible

\* What holds of C24: the recreation ends after one emission and one new
\* inspector, which took the window branch, and the old inspector is shut down
\* last, as it was; the new inspector is in window position unless
\* _load_state_geometry raised.
C24_RecreateOnce ==
    inspector_call.branch = "recreate"
        => /\ inspector_call.effects \in
                {<<"recreate.emit", "_init_inspector", "setParent", "show", "shutdown">>,
                 <<"recreate.emit", "_init_inspector", "setParent", "shutdown">>}
           /\ inspector_call.old = Some(inspector_call.was)
           /\ inspector_call.was.position \in {Some(p) : p \in Position \ {"window"}}
           /\ inspector.exists
           /\ inspector_call.raised = "none"
                => (inspector.position = Some("window") /\ inspector.visible)
           /\ inspector_call.raised # "none" => inspector.position = None

----------------------------------------------------------------------------
(* Claims about the load status of AbstractTab, checked under SpecTab *)

\* C20: _update_load_status(ok) gives error when ok is false (also for an
\* https URL and for a host with a certificate error); otherwise warn when
\* the scheme is https and the host is in the insecure-host set; otherwise
\* success_https when the scheme is https; otherwise success. A URL that is
\* not https never gives warn, whatever the insecure-host set holds.
C20_LoadStatusPrecedence ==
    tab_call.op = "_update_load_status"
      => /\ ~tab_call.ok => tab.load_status = "error"
         /\ (tab_call.ok /\ tab.url.scheme = "https" /\ tab.url.host \in insecure_hosts)
              => tab.load_status = "warn"
         /\ (tab_call.ok /\ tab.url.scheme = "https" /\ tab.url.host \notin insecure_hosts)
              => tab.load_status = "success_https"
         /\ (tab_call.ok /\ tab.url.scheme # "https") => tab.load_status = "success"
         /\ tab.url.scheme # "https" => tab.load_status # "warn"

C20_Witness ==
    /\ tab_call.op = "_update_load_status"
    /\ tab_call.ok
    /\ tab.url.scheme = "http"
    /\ tab.url.host \in insecure_hosts
    /\ tab.load_status = "success"

\* C21: after any sequence of load-start, load-progress and load-status
\* events, load_status() is the value of the most recent load_status_changed
\* emission (none before any emission); every load-start sets the status to
\* loading and progress() to 0; _set_load_status with a value that is no
\* LoadStatus raises without changing the status or emitting.
C21_StatusIsLastEmission ==
    /\ [](/\ tab.load_status = IF tab_call.last = None THEN "none" ELSE Get(tab_call.last)
          /\ tab_call.op = "_on_load_started"
               => (tab.load_status = "loading" /\ tab.progress = 0
                     /\ tab_call.emits = <<"loading">>))
    /\ [][tab_call'.op = "_set_load_status"
            => /\ tab_call'.raised <=> tab_call'.emits = <<>>
               /\ tab_call'.raised => tab' = tab
               /\ tab_call'.raised \/ tab_call'.emits = <<tab'.load_status>>]_vars

C21_Witness ==
    /\ tab_call.op = "_set_load_status"
    /\ tab_call.raised
    /\ tab.load_status = "warn"
    /\ tab.progress = 50
    /\ tab_call.last = Some("warn")


----------------------------------------------------------------------------
(* Claims about flush() with handlers that call back, checked under SpecDelivery *)

\* C25: messages are delivered in the order of the show calls, each once: when
\* no flush() is under way on a connected bridge, the show_message emissions
\* are the messages of the show calls in call order, whether or not a handler
\* called show() or flush() during the delivery.
C25_DeliveredInShowOrder ==
    (frames = <<>> /\ bridge.connected) => bridge.show_message = submitted

\* What holds of C25: a flush() under way emits the messages of its own list
\* in their order, and once it has returned every message shown was emitted
\* at least once and the cache is empty.
C25_EveryMessageDelivered ==
    /\ \A k \in DOMAIN frames :
         /\ frames[k].i - 1 <= Len(frames[k].msgs)
         /\ frames[k].msgs = SubSeq(submitted, 1, Len(frames[k].msgs))
    /\ (frames = <<>> /\ bridge.connected)
         => /\ bridge.cache = <<>>
            /\ \A m \in {submitted[j] : j \in DOMAIN submitted} :
                 \E j \in DOMAIN bridge.show_message : bridge.show_message[j] = m

====
